---- MODULE Spec2Model ----
(***************************************************************************)
(* Model of src/t2t/tune2tubeclass.py: Tune2Tube.upload_tune and the       *)
(* methods it drives (generate_video, get_authenticated_service,           *)
(* initialize_upload, resumable_upload).  One run of upload_tune is one    *)
(* behaviour; the external tools (ffprobe, mutagen, ffmpeg, the OAuth      *)
(* flow, the upload transport, random.random) are nondeterministic inputs. *)
(***************************************************************************)
EXTENDS Integers, Sequences, FiniteSets, TLC

VARIABLES
    pc,              \* position of the run in upload_tune / its callees
    status,          \* how the process stands: running, SystemExit, ...
    printed,         \* the kinds of message written to stdout so far
    video_ready,     \* upload_tune's parameter
    generate_only,   \* settings['generate_only']
    audio_exists,    \* os.path.exists(audio)
    image_exists,    \* os.path.exists(image)
    settings,        \* the settings and files initialize_upload reads
    probe_out,       \* the 'Duration: (.+?),' matches of ffprobe's output
    metadata,        \* settings['metadata'], an insertion-ordered dict
    duration,        \* generate_video's local `duration` (a string)
    timetake,        \* upload_tune's local `timetake`: <<>> while unbound
    ffmpeg_t,        \* the value after '-t' in ffmpeg_cmd: <<>> before it is built
    response,        \* resumable_upload's local `response`
    error,           \* resumable_upload's local `error`: <<>> is None
    title,           \* initialize_upload's local `title`: <<>> before it is set
    description,     \* initialize_upload's local `description`
    retry,           \* resumable_upload's local `retry`
    sleep_seconds,   \* resumable_upload's local, in units of 1/RandDen s
    last_outcome,    \* outcome of the latest next_chunk() call
    calls            \* how often each external collaborator was invoked

vars == <<pc, status, printed, video_ready, generate_only, audio_exists,
          image_exists, settings, title, description, probe_out, metadata, duration, timetake, ffmpeg_t, response,
          error, retry, sleep_seconds, last_outcome, calls>>

gen_vars == <<probe_out, metadata, duration, timetake, ffmpeg_t>>
up_vars == <<response, error, retry, sleep_seconds, last_outcome>>
in_vars == <<video_ready, generate_only, audio_exists, image_exists, settings>>
body_vars == <<title, description>>

----------------------------------------------------------------------------
(* Bounds of the model.                                                    *)

\* random.random() is drawn from {0/RandDen, ..., (RandDen-1)/RandDen}.
RandDen == 4

----------------------------------------------------------------------------
(* Constants of Tune2Tube.__init__.                                        *)

max_retries == 10

retriable_status_codes == {500, 502, 503, 504}

\* The HTTP statuses an HttpError of next_chunk() is drawn from.
HttpStatuses == {400, 401, 403, 429, 500, 501, 502, 503, 504}

----------------------------------------------------------------------------
(* Strings are sequences of one-character strings.                         *)

DigitChars == <<"0", "1", "2", "3", "4", "5", "6", "7", "8", "9">>

IsDigit(c) == \E i \in 1..10 : DigitChars[i] = c

DigitVal(c) == (CHOOSE i \in 1..10 : DigitChars[i] = c) - 1

AllDigits(s) == \A i \in 1..Len(s) : IsDigit(s[i])

RECURSIVE ToInt(_)
ToInt(s) == IF s = <<>> THEN 0
            ELSE 10 * ToInt(SubSeq(s, 1, Len(s) - 1)) + DigitVal(s[Len(s)])

RECURSIVE Pow(_, _)
Pow(b, n) == IF n = 0 THEN 1 ELSE b * Pow(b, n - 1)

----------------------------------------------------------------------------
(* datetime.strptime(duration, '%H:%M:%S.%f') followed by timedelta(...).  *)

\* %H is the pattern 2[0-3]|[0-1]\d|\d
MatchH(f) == /\ Len(f) \in 1..2
             /\ AllDigits(f)
             /\ Len(f) = 2 => \/ f[1] = "2" /\ DigitVal(f[2]) <= 3
                              \/ DigitVal(f[1]) <= 1

\* %M is the pattern [0-5]\d|\d
MatchM(f) == /\ Len(f) \in 1..2
             /\ AllDigits(f)
             /\ Len(f) = 2 => DigitVal(f[1]) <= 5

\* %S is the pattern 6[0-1]|[0-5]\d|\d
MatchS(f) == /\ Len(f) \in 1..2
             /\ AllDigits(f)
             /\ Len(f) = 2 => \/ f[1] = "6" /\ DigitVal(f[2]) <= 1
                              \/ DigitVal(f[1]) <= 5

\* %f is the pattern [0-9]{1,6}
MatchF(f) == Len(f) \in 1..6 /\ AllDigits(f)

\* The field lengths <<hl, ml, sl, fl>> under which the whole of s matches
\* H:M:S.f; text left over after the match is "unconverted data".
StrptimeSplits(s) ==
    { t \in (1..2) \X (1..2) \X (1..2) \X (1..6) :
        /\ Len(s) = t[1] + t[2] + t[3] + t[4] + 3
        /\ s[t[1] + 1] = ":"
        /\ s[t[1] + t[2] + 2] = ":"
        /\ s[t[1] + t[2] + t[3] + 3] = "."
        /\ MatchH(SubSeq(s, 1, t[1]))
        /\ MatchM(SubSeq(s, t[1] + 2, t[1] + t[2] + 1))
        /\ MatchS(SubSeq(s, t[1] + t[2] + 3, t[1] + t[2] + t[3] + 2))
        /\ MatchF(SubSeq(s, t[1] + t[2] + t[3] + 4, Len(s))) }

\* %f pads the digits on the right with zeros to six places.
Microseconds(f) == ToInt(f) * Pow(10, 6 - Len(f))

\* The fields of the datetime strptime builds; defined when a split exists.
StrptimeFields(s) ==
    LET t == CHOOSE x \in StrptimeSplits(s) : TRUE
    IN  [hour        |-> ToInt(SubSeq(s, 1, t[1])),
         minute      |-> ToInt(SubSeq(s, t[1] + 2, t[1] + t[2] + 1)),
         second      |-> ToInt(SubSeq(s, t[1] + t[2] + 3, t[1] + t[2] + t[3] + 2)),
         microsecond |-> Microseconds(SubSeq(s, t[1] + t[2] + t[3] + 4, Len(s)))]

\* strptime raises ValueError when the string does not match the format, and
\* the datetime constructor raises it for a second of 60 or 61.
StrptimeRaises(s) ==
    \/ StrptimeSplits(s) = {}
    \/ StrptimeFields(s).second > 59

\* The minutes counted as seconds.
total_seconds_MinutesAsSeconds(a) ==
    [seconds      |-> a.hour * 3600 + a.minute + a.second,
     microseconds |-> a.microsecond]

\* timedelta(hours, minutes, seconds, microseconds).total_seconds(), kept
\* exact as whole seconds and the microseconds beyond them.
total_seconds(a) ==
    [seconds      |-> a.hour * 3600 + a.minute * 60 + a.second,
     microseconds |-> a.microsecond]

----------------------------------------------------------------------------
(* The inputs a run draws from.                                            *)

Colon == <<":">>
Dot == <<".">>

SampleHours == {<<"0", "0">>, <<"0", "1">>, <<"2", "3">>, <<"2", "4">>, <<"1">>}
SampleMinutes == {<<"0", "2">>, <<"6", "0">>}
SampleSeconds == {<<"0", "3">>, <<"6", "0">>}
SampleFractions == {<<"5", "0", "0", "0", "0", "0">>, <<"4", "5">>,
                    <<"0", "0", "0", "0", "0", "0", "0">>}

\* Strings shaped digits:digits:digits.digits
ShapedDurations ==
    { h \o Colon \o m \o Colon \o s \o Dot \o f :
        h \in SampleHours, m \in SampleMinutes,
        s \in SampleSeconds, f \in SampleFractions }

\* "N/A", "01:02:03" (no fraction), "01.02:03:5" (separators misplaced)
UnshapedDurations ==
    { <<"N", "/", "A">>,
      <<"0", "1">> \o Colon \o <<"0", "2">> \o Colon \o <<"0", "3">>,
      <<"0", "1">> \o Dot \o <<"0", "2">> \o Colon \o <<"0", "3">> \o Colon \o <<"5">> }

\* "01:00:00.000000", a whole number of hours
WholeHourDurations ==
    { <<"0", "1">> \o Colon \o <<"0", "0">> \o Colon \o <<"0", "0">>
        \o Dot \o <<"0", "0", "0", "0", "0", "0">> }

DurationStrings == ShapedDurations \cup UnshapedDurations \cup WholeHourDurations

\* What re.findall('Duration: (.+?),', probe_out) returns: no match, one
\* match, or several of which the first is used.
ProbeOutputs ==
    {<<>>} \cup { <<d>> : d \in DurationStrings }
           \cup { <<<<"0", "1">> \o Colon \o <<"0", "2">> \o Colon \o <<"0", "3">>
                       \o Dot \o <<"5">>, <<"N", "/", "A">>>> }

\* A tag of the mutagen object: its key, what tag_lookup makes of the key,
\* the Python type of its value and the value's text.
Tag(t, n, k, v) == [tag |-> t, nice |-> n, kind |-> k, value |-> v]

\* Keys and values are strings: sequences of one-character strings.
K_artist == <<"a", "r", "t", "i", "s", "t">>
K_title == <<"t", "i", "t", "l", "e">>
K_album == <<"a", "l", "b", "u", "m">>
K_comment == <<"c", "o", "m">>
K_lyrics == <<"l", "y", "r">>
K_picture == <<"A", "P", "I", "C", ":">>

TagFiles ==
    { <<>>,
      << Tag("TPE1", K_artist, "frame", <<"A">>) >>,
      << Tag("artist", K_artist, "str", <<"A">>),
         Tag("title", K_title, "str", <<"B">>) >>,
      << Tag("artist", K_artist, "str", <<"A">>),
         Tag("ARTIST", K_artist, "str", <<"C">>) >>,
      << Tag("title", K_title, "empty_list", <<>>) >>,
      << Tag("artist", K_artist, "str", <<"A">>),
         Tag("title", K_title, "list", <<"B">>) >>,
      << Tag("comment", K_comment, "str", <<"x", "\n", "y">>),
         Tag("artist", K_artist, "str", <<"A">>),
         Tag("lyrics", K_lyrics, "str", <<"p", "\n", "q">>),
         Tag("title", K_title, "str", <<"B">>) >>,
      << Tag("APIC:", K_picture, "str", <<"i", "\n", "j">>),
         Tag("title", K_title, "str", <<"B">>),
         Tag("album", K_album, "str", <<"L">>) >> }

\* What mutagen.File(audio) does: raises AttributeError, returns None, or
\* returns the file's tags.
MutagenResults ==
    { [kind |-> k, tags |-> <<>>] : k \in {"AttributeError", "None"} }
      \cup { [kind |-> "file", tags |-> t] : t \in TagFiles }

\* A Python dict with insertion order: a sequence of <<key, value>> pairs.
DictHas(d, k) == \E i \in 1..Len(d) : d[i][1] = k

DictSet(d, k, v) ==
    IF DictHas(d, k)
    THEN [i \in 1..Len(d) |-> IF d[i][1] = k THEN <<k, v>> ELSE d[i]]
    ELSE Append(d, <<k, v>>)

\* The loop of lines 468-479 over the tags from position i on; the result is
\* <<dict, raised>>, raised being TRUE when `unicode` (an unbound name) is
\* evaluated for an element of a list or tuple value.
RECURSIVE CollectTags(_, _, _)
CollectTags(tags, i, d) ==
    IF i > Len(tags) THEN <<d, FALSE>>
    ELSE LET t == tags[i] IN
         CASE t.kind = "list"       -> <<d, TRUE>>
           [] t.kind = "empty_list" -> CollectTags(tags, i + 1, d)
           [] t.kind = "str"        ->
                CollectTags(tags, i + 1, DictSet(d, t.nice, t.value))
           [] OTHER                 -> CollectTags(tags, i + 1, d)

DictGet(d, k) == d[CHOOSE i \in 1..Len(d) : d[i][1] = k][2]

\* `sub in s` for strings.
Contains(s, sub) ==
    \E i \in 1..(Len(s) - Len(sub) + 1) : SubSeq(s, i, i + Len(sub) - 1) = sub

\* s.split(c): the pieces of s between the occurrences of the character c.
RECURSIVE Split(_, _)
Split(s, c) ==
    IF \E i \in 1..Len(s) : s[i] = c
    THEN LET i == CHOOSE j \in 1..Len(s) : s[j] = c /\ \A k \in 1..(j - 1) : s[k] # c
         IN  <<SubSeq(s, 1, i - 1)>> \o Split(SubSeq(s, i + 1, Len(s)), c)
    ELSE <<s>>

\* sep.join(items)
RECURSIVE Join(_, _)
Join(items, sep) ==
    IF Len(items) = 0 THEN <<>>
    ELSE IF Len(items) = 1 THEN items[1]
    ELSE items[1] \o sep \o Join(Tail(items), sep)

\* str(n) for an integer n >= 0.
RECURSIVE IntToStr(_)
IntToStr(n) ==
    IF n < 10 THEN <<DigitChars[n + 1]>>
    ELSE IntToStr(n \div 10) \o <<DigitChars[(n % 10) + 1]>>

\* The settings upload_tune runs under and the two files initialize_upload
\* reads: --title_vars artist,title; --title_vars title,album,artist; a
\* fixed --title; and an empty --title.
Settings(dyn, tv, t, add, desc, titles) ==
    [dynamic_title |-> dyn, title_vars |-> tv, title |-> t,
     title_sep |-> <<" ", "-", " ">>, add_metadata |-> add,
     description_txt |-> desc, titles_txt |-> titles]

SettingsInputs ==
    { Settings(TRUE, K_artist \o <<",">> \o K_title, <<>>, TRUE,
               <<"D">>, << <<"T", "1">>, <<"T", "2">> >>),
      Settings(TRUE, K_title \o <<",">> \o K_album \o <<",">> \o K_artist, <<>>,
               TRUE, <<>>, << <<"T", "1">> >>),
      Settings(FALSE, <<>>, <<"M", "y">>, FALSE, <<"D">>, << <<"T", "1">> >>),
      Settings(FALSE, <<>>, <<>>, TRUE, <<"D">>, << <<"T", "1">> >>) }

NoneResponse == [none |-> TRUE, body |-> {}]

DictResponse(b) == [none |-> FALSE, body |-> b]

\* The bodies of a terminal response: with an 'id' key, without, and empty.
ResponseBodies ==
    { {<<"id", "vid1">>, <<"kind", "youtube#video">>},
      {<<"error", "quota">>},
      {} }

Outcome(k, c, b) == [kind |-> k, code |-> c, body |-> b]

\* What insert_request.next_chunk() does.
ChunkOutcomes ==
    { Outcome("response", 0, b) : b \in ResponseBodies }
      \cup { Outcome("in_progress", 0, {}) }
      \cup { Outcome("HttpError", c, {}) : c \in HttpStatuses }
      \cup { Outcome("retriable_exception", 0, {}),
             Outcome("AccessTokenRefreshError", 0, {}) }

\* What get_authenticated_service does.
AuthOutcomes == {"service", "ServerNotFoundError", "missing_client_secrets"}

NoCalls == [probe |-> 0, mutagen |-> 0, ffmpeg |-> 0, auth |-> 0,
            insert |-> 0, next_chunk |-> 0, sleep |-> 0, transient |-> 0]

Called(what) == calls' = [calls EXCEPT ![what] = @ + 1]

\* One more next_chunk() call, counted as a transient failure when t = 1.
ChunkCalled(t) ==
    calls' = [calls EXCEPT !["next_chunk"] = @ + 1, !["transient"] = @ + t]

----------------------------------------------------------------------------
TypeOK ==
    /\ pc \in {"upload_tune", "probe", "metadata", "duration", "encode",
               "generate_only", "authenticate", "initialize_upload",
               "next_chunk", "after_try", "done"}
    /\ status \in {"running", "SystemExit", "exit", "uncaught", "returned"}
    /\ retry \in 0..(max_retries + 1)
    /\ Len(timetake) \in 0..1

\* A run starts at the call of upload_tune, on an object whose settings are
\* those in force after change_settings; nothing has been invoked yet.
Init ==
    /\ pc = "upload_tune"
    /\ status = "running"
    /\ printed = {}
    /\ video_ready \in BOOLEAN
    /\ generate_only \in BOOLEAN
    /\ audio_exists \in BOOLEAN
    /\ image_exists \in BOOLEAN
    /\ settings \in SettingsInputs
    /\ title = <<>>
    /\ description = <<>>
    /\ probe_out = <<>>
    /\ metadata = <<>>
    /\ duration = <<>>
    /\ timetake = <<>>
    /\ ffmpeg_t = <<>>
    /\ response = NoneResponse
    /\ error = <<>>
    /\ retry = 0
    /\ sleep_seconds = 0
    /\ last_outcome = Outcome("none", 0, {})
    /\ calls = NoCalls

----------------------------------------------------------------------------
(* How a run ends.                                                         *)

\* utils.error_exit(msg): prints the message and terminates the process.
error_exit(msg) ==
    /\ printed' = printed \cup {msg}
    /\ status' = "SystemExit"
    /\ pc' = "done"

\* An exception no handler catches: the interpreter prints a traceback.
Uncaught(exc) ==
    /\ printed' = printed \cup {"Traceback: " \o exc}
    /\ status' = "uncaught"
    /\ pc' = "done"

\* Control moves on to `next`, having printed msgs.
Goto(next, msgs) ==
    /\ printed' = printed \cup msgs
    /\ status' = status
    /\ pc' = next

----------------------------------------------------------------------------
(* generate_video                                                          *)

\* The test of line 608 inverted.
NeedsGenerate_Inverted(ready) == ready

\* upload_tune, line 608: `if not video_ready`.
NeedsGenerate(ready) == ~ready

\* generate_video, lines 432 and 436: `if not (os.path.exists(path))`.
AudioMissing(exists) == ~exists

\* The image check of line 436 left out.
ImageMissing_Unchecked(exists) == FALSE

ImageMissing(exists) == ~exists

\* upload_tune enters generate_video, which checks that both files exist.
CheckPaths ==
    /\ pc = "upload_tune"
    /\ status = "running"
    /\ NeedsGenerate(video_ready)
    /\ IF AudioMissing(audio_exists)
       THEN error_exit("please specify a valid audio  file")
       ELSE IF ImageMissing(image_exists)
            THEN error_exit("please specify a valid image file")
            ELSE Goto("probe", {})
    /\ UNCHANGED <<in_vars, body_vars, gen_vars, up_vars, calls>>

\* upload_tune with video_ready: generate_video is not called.
SkipGenerate ==
    /\ pc = "upload_tune"
    /\ status = "running"
    /\ ~NeedsGenerate(video_ready)
    /\ Goto("generate_only", {})
    /\ UNCHANGED <<in_vars, body_vars, gen_vars, up_vars, calls>>

\* subprocess.check_output([ffprobe, audio]): raises, or yields its output.
Probe ==
    /\ pc = "probe"
    /\ status = "running"
    /\ Called("probe")
    /\ \/ /\ error_exit("couldn't probe the audio file")
          /\ UNCHANGED probe_out
       \/ /\ probe_out' \in ProbeOutputs
          /\ Goto("metadata", {})
    /\ UNCHANGED <<in_vars, body_vars, metadata, duration, timetake, ffmpeg_t, up_vars>>

\* mutagen.File(audio) and the loop that fills settings['metadata'].
ReadMetadata ==
    /\ pc = "metadata"
    /\ status = "running"
    /\ Called("mutagen")
    /\ \E m \in MutagenResults :
         CASE m.kind \in {"AttributeError", "None"} ->
                /\ metadata' = <<>>
                /\ Goto("duration", {})
           [] OTHER ->
                LET r == CollectTags(m.tags, 1, <<>>) IN
                /\ metadata' = r[1]
                /\ IF r[2] THEN Uncaught("NameError: unicode")
                           ELSE Goto("duration", {})
    /\ UNCHANGED <<in_vars, body_vars, probe_out, duration, timetake, ffmpeg_t, up_vars>>

\* Lines 481-506: take the first Duration match and parse it.
ParseDuration ==
    /\ pc = "duration"
    /\ status = "running"
    /\ IF Len(probe_out) = 0
       THEN /\ error_exit("couldn't parse ffprobe's output")
            /\ UNCHANGED duration
       ELSE /\ duration' = probe_out[1]
            /\ IF StrptimeRaises(probe_out[1])
               THEN error_exit("error trying to determine the duration")
               ELSE Goto("encode", {})
    /\ UNCHANGED <<in_vars, body_vars, probe_out, metadata, timetake, ffmpeg_t, up_vars, calls>>

\* Lines 508-602: build the ffmpeg command with -t total_seconds, run it and
\* return the duration to upload_tune.
Encode ==
    /\ pc = "encode"
    /\ status = "running"
    /\ Called("ffmpeg")
    /\ ffmpeg_t' = <<total_seconds(StrptimeFields(duration))>>
    /\ \/ /\ error_exit("error trying to generate the video")
          /\ UNCHANGED timetake
       \/ /\ timetake' = <<total_seconds(StrptimeFields(duration))>>
          /\ Goto("generate_only", {"Successfully generated the file"})
    /\ UNCHANGED <<in_vars, body_vars, probe_out, metadata, duration, up_vars>>

----------------------------------------------------------------------------
(* upload_tune after the video exists                                      *)

\* The generate_only setting ignored.
SkipsUpload_Never(only) == FALSE

\* Line 611: `if self.settings['generate_only']`.
SkipsUpload(only) == only

\* Lines 611-613.
GenerateOnlyCheck ==
    /\ pc = "generate_only"
    /\ status = "running"
    /\ IF SkipsUpload(generate_only)
       THEN /\ printed' = printed \cup {"Skipping Youtube upload."}
            /\ status' = "exit"
            /\ pc' = "done"
       ELSE Goto("authenticate", {"Authenticating using the Youtube API..."})
    /\ UNCHANGED <<in_vars, body_vars, gen_vars, up_vars, calls>>

\* Lines 617-620: get_authenticated_service; flow_from_clientsecrets exits
\* with missing_client_secrets_message when the secrets file is absent.
Authenticate ==
    /\ pc = "authenticate"
    /\ status = "running"
    /\ Called("auth")
    /\ \E a \in AuthOutcomes :
         CASE a = "ServerNotFoundError" -> error_exit("ServerNotFoundError")
           [] a = "missing_client_secrets" ->
                /\ printed' = printed \cup {"Please configure OAuth 2.0."}
                /\ status' = "SystemExit"
                /\ pc' = "done"
           [] OTHER -> Goto("initialize_upload", {})
    /\ UNCHANGED <<in_vars, body_vars, gen_vars, up_vars>>

----------------------------------------------------------------------------
(* initialize_upload                                                       *)

\* Lines 304-307: math.ceil(seconds / 3600).
seconds_to_rounded_hours(seconds) ==
    IF seconds.seconds % 3600 = 0 /\ seconds.microseconds = 0
    THEN seconds.seconds \div 3600
    ELSE seconds.seconds \div 3600 + 1

\* Absent keys kept as empty items.
TitleItems_KeepAbsent(title_vars, md) ==
    [i \in 1..Len(title_vars) |->
        IF DictHas(md, title_vars[i]) THEN DictGet(md, title_vars[i]) ELSE <<>>]

\* Lines 321-322: [metadata[n] for n in title_vars if n in metadata].
RECURSIVE TitleItems(_, _)
TitleItems(title_vars, md) ==
    IF Len(title_vars) = 0 THEN <<>>
    ELSE (IF DictHas(md, title_vars[1])
          THEN <<DictGet(md, title_vars[1])>> ELSE <<>>)
         \o TitleItems(Tail(title_vars), md)

\* Lines 319-325: the title before the fallback.
FirstTitle(st, md) ==
    IF st.dynamic_title
    THEN Join(TitleItems(Split(st.title_vars, ","), md), st.title_sep)
    ELSE st.title

\* The plural used from one hour on.
HoursLabel_PluralFromOne(hours) ==
    IF hours >= 1 THEN <<" ", "H", "o", "u", "r", "s", "]", " ", "|", " ">>
    ELSE <<" ", "H", "o", "u", "r", "]", " ", "|", " ">>

\* Lines 329-332: what follows the number in "[%s Hours] | " / "[%s Hour] | ".
HoursLabel(hours) ==
    IF hours > 1 THEN <<" ", "H", "o", "u", "r", "s", "]", " ", "|", " ">>
    ELSE <<" ", "H", "o", "u", "r", "]", " ", "|", " ">>

\* Lines 327-333, random_title being what get_random_title() returned.
FinalTitle(first, time, random_title) ==
    IF first = <<>>
    THEN LET hours == seconds_to_rounded_hours(time)
         IN  <<"[">> \o IntToStr(hours) \o HoursLabel(hours) \o random_title
    ELSE first

\* Line 346: the sort key, `'\n' in value`.
HasNewline(v) == \E i \in 1..Len(v) : v[i] = "\n"

\* x put into the sorted list l behind every item whose key is not greater.
RECURSIVE InsertByNewline(_, _)
InsertByNewline(l, x) ==
    IF Len(l) = 0 THEN <<x>>
    ELSE IF HasNewline(l[1][2]) /\ ~HasNewline(x[2])
         THEN <<x>> \o l
         ELSE <<l[1]>> \o InsertByNewline(Tail(l), x)

RECURSIVE SortFrom(_, _, _)
SortFrom(md, i, acc) ==
    IF i > Len(md) THEN acc
    ELSE SortFrom(md, i + 1, InsertByNewline(acc, md[i]))

\* The list left in the order of the dict.
sorted_by_newline_Unsorted(md) == md

\* Lines 342-346: sorted(metalist, key=lambda x: '\n' in value), a stable
\* sort.
sorted_by_newline(md) == SortFrom(md, 1, <<>>)

\* tunetags.tag_lookup(key, True): the key as it is shown.
tag_lookup_nice(key) == key

\* Lines 347-357: the entries of metalist from position i on appended.
RECURSIVE AppendEntries(_, _, _)
AppendEntries(desc, metalist, i) ==
    IF i > Len(metalist) THEN desc
    ELSE LET key == metalist[i][1]
             value == metalist[i][2]
             line == tag_lookup_nice(key) \o <<":", " ">> \o value
         IN  IF Contains(key, <<"A", "P", "I", "C">>)
             THEN AppendEntries(desc, metalist, i + 1)
             ELSE IF HasNewline(value)
                  THEN AppendEntries(desc \o <<"\n", "-", "-", "-", "-", "\n">>
                                          \o line \o <<"\n">>, metalist, i + 1)
                  ELSE AppendEntries(desc \o <<"\n">> \o line, metalist, i + 1)

\* Lines 335-357.
Description(st, md) ==
    IF st.add_metadata
    THEN AppendEntries(IF st.description_txt # <<>>
                       THEN st.description_txt \o <<"\n">>
                       ELSE st.description_txt,
                       sorted_by_newline(md), 1)
    ELSE st.description_txt

\* Line 623 evaluates `timetake`, unbound when generate_video was skipped;
\* lines 309-380 build the request and enter resumable_upload (387-389).
InitializeUpload ==
    /\ pc = "initialize_upload"
    /\ status = "running"
    /\ IF timetake = <<>>
       THEN /\ Uncaught("UnboundLocalError: timetake")
            /\ UNCHANGED <<up_vars, calls, body_vars>>
       ELSE /\ Called("insert")
            /\ \E t \in 1..Len(settings.titles_txt) :
                 title' = FinalTitle(FirstTitle(settings, metadata), timetake[1],
                                     settings.titles_txt[t])
            /\ description' = Description(settings, metadata)
            /\ Goto("next_chunk", {"Uploading file..."})
            /\ response' = NoneResponse
            /\ error' = <<>>
            /\ retry' = 0
            /\ UNCHANGED <<sleep_seconds, last_outcome>>
    /\ UNCHANGED <<in_vars, gen_vars>>

----------------------------------------------------------------------------
(* resumable_upload                                                        *)

\* Line 395: `'id' in response`.
HasId(resp) == \E kv \in resp.body : kv[1] = "id"

\* Every 5xx status taken for retriable.
IsRetriableStatus_Any5xx(code) == code >= 500

\* Line 406: `e.resp.status in self.retriable_status_codes`.
IsRetriableStatus(code) == code \in retriable_status_codes

\* The ceiling test off by one, either way.
RetriesExhausted_AtMax(r) == r >= max_retries

\* The retry ceiling never checked.
RetriesExhausted_Never(r) == FALSE

RetriesExhausted_OneLate(r) == r > max_retries + 1

\* Line 418: `retry > self.max_retries`.
RetriesExhausted(r) == r > max_retries

\* The exponent off by one.
max_sleep_Doubled(r) == Pow(2, r + 1)

\* Line 421: `max_sleep = 2 ** retry`.
max_sleep(r) == Pow(2, r)

\* Line 390: `while response is None`; leaving the loop returns through
\* initialize_upload to the end of upload_tune.
LoopOrReturn(msgs) ==
    IF response.none THEN Goto("next_chunk", msgs)
    ELSE /\ printed' = printed \cup msgs
         /\ status' = "returned"
         /\ pc' = "done"

\* Lines 392-413: one next_chunk() call inside the try statement.  An
\* exception the try does not catch leaves resumable_upload; upload_tune
\* (624-632) catches HttpError and AccessTokenRefreshError, prints, and ends.
NextChunk ==
    /\ pc = "next_chunk"
    /\ status = "running"
    /\ \E o \in ChunkOutcomes :
         /\ last_outcome' = o
         /\ CASE o.kind = "response" ->
                   /\ response' = DictResponse(o.body)
                   /\ IF HasId(DictResponse(o.body))
                      THEN Goto("after_try", {"was successfully uploaded"})
                      ELSE error_exit("The upload failed with an unexpected response")
                   /\ ChunkCalled(0)
                   /\ UNCHANGED error
              [] o.kind = "in_progress" ->
                   /\ response' = NoneResponse
                   /\ Uncaught("TypeError: argument of type 'NoneType' is not iterable")
                   /\ ChunkCalled(0)
                   /\ UNCHANGED error
              [] o.kind = "HttpError" ->
                   /\ IF IsRetriableStatus(o.code)
                      THEN /\ error' = <<"A retriable HTTP error occurred", o.code>>
                           /\ Goto("after_try", {})
                           /\ ChunkCalled(1)
                      ELSE /\ printed' = printed \cup {"An HTTP error occurred"}
                           /\ status' = "returned"
                           /\ pc' = "done"
                           /\ ChunkCalled(0)
                           /\ UNCHANGED error
                   /\ UNCHANGED response
              [] o.kind = "retriable_exception" ->
                   /\ error' = <<"A retriable error occurred">>
                   /\ Goto("after_try", {})
                   /\ ChunkCalled(1)
                   /\ UNCHANGED response
              [] OTHER ->
                   /\ printed' = printed \cup {"The stored access token seems to be invalid"}
                   /\ status' = "returned"
                   /\ pc' = "done"
                   /\ ChunkCalled(0)
                   /\ UNCHANGED <<response, error>>
    /\ UNCHANGED <<in_vars, body_vars, gen_vars, retry, sleep_seconds>>

\* Lines 415-425, then the loop test of line 390.
AfterTry ==
    /\ pc = "after_try"
    /\ status = "running"
    /\ IF error # <<>>
       THEN /\ retry' = retry + 1
            /\ IF RetriesExhausted(retry + 1)
               THEN /\ error_exit("Too many upload errors")
                    /\ UNCHANGED <<sleep_seconds, calls>>
               ELSE /\ \E r \in 0..(RandDen - 1) :
                          sleep_seconds' = r * max_sleep(retry + 1)
                    /\ Called("sleep")
                    /\ LoopOrReturn({"retriable error", "Sleeping and then retrying"})
       ELSE /\ LoopOrReturn({})
            /\ UNCHANGED <<retry, sleep_seconds, calls>>
    /\ UNCHANGED <<in_vars, body_vars, gen_vars, response, error, last_outcome>>

----------------------------------------------------------------------------
Next ==
    \/ CheckPaths
    \/ SkipGenerate
    \/ Probe
    \/ ReadMetadata
    \/ ParseDuration
    \/ Encode
    \/ GenerateOnlyCheck
    \/ Authenticate
    \/ InitializeUpload
    \/ NextChunk
    \/ AfterTry

Spec == Init /\ [][Next]_vars

----------------------------------------------------------------------------
(* Properties                                                              *)

TooMany == "Too many upload errors" \in printed

\* The latest next_chunk() returned a terminal response with an 'id' key.
GotId ==
    /\ last_outcome.kind = "response"
    /\ \E kv \in last_outcome.body : kv[1] = "id"

\* The latest next_chunk() failed in a way that is not transient: an HTTP
\* error outside {500, 502, 503, 504}, or a response without an 'id' key.
NonTransient ==
    \/ /\ last_outcome.kind = "HttpError"
       /\ last_outcome.code \notin {500, 502, 503, 504}
    \/ /\ last_outcome.kind = "response"
       /\ ~\E kv \in last_outcome.body : kv[1] = "id"

\* Every chunk request made so far failed transiently.
AllFailed == calls.next_chunk = calls.transient

\* C1: whenever a chunk request returns a terminal response containing an
\* identifier, after k in 0..10 transient failures, the upload ends in
\* success (upload_tune returns) and never in a fatal abort.
C1_IdMeansSuccess ==
    (GotId /\ calls.transient \in 0..10) =>
        /\ status # "SystemExit"
        /\ pc = "done" => status = "returned"

\* C2: when every chunk request fails transiently, the fatal abort ("too
\* many retries") comes right after the 11th failure: never before it, and
\* no 12th chunk request is issued.
C2_AbortAfterEleventhFailure ==
    AllFailed =>
        /\ calls.next_chunk <= 11
        /\ pc = "next_chunk" => calls.transient <= 10
        /\ TooMany => calls.transient = 11
        /\ (calls.transient = 11 /\ pc # "after_try") =>
               (pc = "done" /\ status = "SystemExit" /\ TooMany)

C2_Witness ==
    /\ calls.next_chunk = 11
    /\ calls.transient = 11
    /\ status = "SystemExit"
    /\ TooMany

\* C3: a non-transient error ends the upload in the very step it occurs,
\* whatever the retry count; once it has occurred no chunk request and no
\* backoff sleep is made.
C3_NonTransientAbortsAtOnce ==
    /\ [](NonTransient => (pc = "done" /\ status # "running"))
    /\ [][NonTransient => (calls'.next_chunk = calls.next_chunk
                           /\ calls'.sleep = calls.sleep)]_vars

C3_Witness ==
    /\ last_outcome.kind = "HttpError"
    /\ last_outcome.code = 429
    /\ retry = 10
    /\ calls.next_chunk = 11
    /\ pc = "done"

\* C4: every backoff sleep lasts at least 0 and at most 2^retry seconds,
\* retry being the counter after the increment made for that failure, a
\* value in 1..10.  (sleep_seconds counts units of 1/RandDen second.)
C4_SleepBounded ==
    [][calls'.sleep # calls.sleep =>
          /\ retry' = retry + 1
          /\ retry' \in 1..10
          /\ sleep_seconds' >= 0
          /\ sleep_seconds' <= Pow(2, retry') * RandDen]_vars

C4_Witness ==
    /\ calls.sleep = 10
    /\ retry = 10
    /\ sleep_seconds = (RandDen - 1) * 1024
    /\ pc = "next_chunk"

\* C5: while the upload goes on (about to issue a chunk request or to run the
\* error handling) retry is at most 10; retry exceeds 10 only in the state
\* in which the fatal abort has been signalled.
C5_RetryWithinMax ==
    /\ pc \in {"next_chunk", "after_try"} => retry <= 10
    /\ retry > 10 => (status = "SystemExit" /\ TooMany /\ pc = "done")

C5_Witness ==
    /\ retry = 10
    /\ pc = "next_chunk"
    /\ status = "running"
    /\ calls.sleep = 10

\* C6: a chunk request that completes without error and without a terminal
\* response (response is None) leads to another chunk request; it is not
\* counted as a failure and does not end the upload.
C6_InProgressRequestsAgain ==
    last_outcome.kind = "in_progress" =>
        /\ status = "running"
        /\ pc \in {"after_try", "next_chunk"}
        /\ error = <<>> => retry = 0

\* The upload failed: retry ceiling exceeded, non-transient HTTP error,
\* response without identifier, or invalid credentials.
UploadFailed ==
    \/ TooMany
    \/ NonTransient
    \/ last_outcome.kind = "AccessTokenRefreshError"

UploadDiagnostics ==
    {"Too many upload errors", "An HTTP error occurred",
     "The upload failed with an unexpected response",
     "The stored access token seems to be invalid"}

\* C7: every failed upload prints a diagnostic and then terminates the
\* process; none ends without a diagnostic and none lets upload_tune return
\* normally.
C7_FailureExitsWithDiagnostic ==
    (pc = "done" /\ UploadFailed) =>
        /\ printed \cap UploadDiagnostics # {}
        /\ status = "SystemExit"

\* generate_video ran to completion successfully.
GenDone == "Successfully generated the file" \in printed

Uploading == calls.auth > 0 \/ calls.insert > 0 \/ calls.next_chunk > 0

\* C8 as stated: authentication, title/description assembly and the first
\* chunk request happen only after generate_video has completed
\* successfully.
C8_UploadOnlyAfterGenerate == Uploading => GenDone

\* C8 as amended: in a run with video_ready false, authentication,
\* title/description assembly and the first chunk request happen only after
\* generate_video has completed successfully, and a failure inside
\* generate_video leaves all three undone; with video_ready true
\* generate_video is skipped altogether.
C8_UploadOnlyAfterGenerateUnlessReady ==
    /\ ~video_ready => (Uploading => GenDone)
    /\ (~video_ready /\ pc = "done" /\ ~GenDone) => ~Uploading
    /\ video_ready => (calls.probe = 0 /\ calls.mutagen = 0 /\ calls.ffmpeg = 0)

C8_Witness ==
    /\ ~video_ready
    /\ GenDone
    /\ calls.ffmpeg = 1
    /\ calls.auth = 1
    /\ calls.insert = 1
    /\ calls.next_chunk = 1

\* C9: if the audio path or the image path does not exist, generate_video
\* ends fatally before the probe, the metadata reader or the encoder is
\* invoked; they run only when both paths exist.
C9_MissingPathStopsEarly ==
    /\ (~video_ready /\ pc # "upload_tune" /\ ~(audio_exists /\ image_exists)) =>
           /\ pc = "done"
           /\ status = "SystemExit"
           /\ calls.probe = 0 /\ calls.mutagen = 0 /\ calls.ffmpeg = 0
    /\ (calls.probe > 0 \/ calls.mutagen > 0 \/ calls.ffmpeg > 0) =>
           (audio_exists /\ image_exists)

C9_Witness ==
    /\ ~video_ready
    /\ audio_exists
    /\ ~image_exists
    /\ status = "SystemExit"
    /\ "please specify a valid image file" \in printed

\* The text s reads digits:digits:digits.digits, with one or two digits in
\* each of the first three fields and one to six in the last.
DurationShaped(s) ==
    \E hl \in 1..2, ml \in 1..2, sl \in 1..2, fl \in 1..6 :
        /\ Len(s) = hl + ml + sl + fl + 3
        /\ \A i \in 1..Len(s) :
             IF i = hl + 1 \/ i = hl + ml + 2 THEN s[i] = ":"
             ELSE IF i = hl + ml + sl + 3 THEN s[i] = "."
             ELSE IsDigit(s[i])

\* The number the text s shows before its first colon, -1 if there is none.
HoursField(s) ==
    IF \E i \in 1..Len(s) : s[i] = ":" /\ i > 1 /\ AllDigits(SubSeq(s, 1, i - 1))
    THEN LET i == CHOOSE j \in 1..Len(s) : s[j] = ":" /\ AllDigits(SubSeq(s, 1, j - 1))
         IN  ToInt(SubSeq(s, 1, i - 1))
    ELSE -1

\* The probe ran and its output has no duration, or a duration that is not
\* of the form HH:MM:SS.ffffff, or one whose hours field is 24 or more.
BadDuration ==
    /\ pc \notin {"upload_tune", "probe"}
    /\ calls.probe = 1
    /\ "couldn't probe the audio file" \notin printed
    /\ \/ probe_out = <<>>
       \/ /\ probe_out # <<>>
          /\ \/ ~DurationShaped(probe_out[1])
             \/ HoursField(probe_out[1]) >= 24

ParseDiagnostics ==
    {"couldn't parse ffprobe's output", "error trying to determine the duration"}

\* C10: with such a probe output the run ends with a fatal parse error and
\* the encoder is never invoked.
C10_BadDurationIsFatalParseError ==
    BadDuration =>
        /\ calls.ffmpeg = 0
        /\ pc = "done" => (status = "SystemExit" /\ printed \cap ParseDiagnostics # {})

\* The digits of s from position i to j read as a decimal number.
RECURSIVE Decimal(_, _, _)
Decimal(s, i, j) ==
    IF j < i THEN 0 ELSE 10 * Decimal(s, i, j - 1) + DigitVal(s[j])

\* s is HH:MM:SS.ffffff with HH in 0..23 and MM, SS in 0..59.
ValidDuration(s) ==
    /\ Len(s) = 15
    /\ s[3] = ":" /\ s[6] = ":" /\ s[9] = "."
    /\ \A i \in (1..15) \ {3, 6, 9} : IsDigit(s[i])
    /\ Decimal(s, 1, 2) <= 23
    /\ Decimal(s, 4, 5) <= 59
    /\ Decimal(s, 7, 8) <= 59

\* C11: a valid string HH:MM:SS.ffffff parses to HH*3600 + MM*60 + SS
\* seconds plus ffffff microseconds; the encoder is given this value after
\* '-t' and generate_video returns it.
C11_DurationValue ==
    (duration # <<>> /\ ValidDuration(duration)) =>
        /\ pc = "done" => status # "SystemExit" \/ calls.ffmpeg = 1
        /\ ffmpeg_t # <<>> =>
              /\ ffmpeg_t[1].seconds = Decimal(duration, 1, 2) * 3600
                                       + Decimal(duration, 4, 5) * 60
                                       + Decimal(duration, 7, 8)
              /\ ffmpeg_t[1].microseconds = Decimal(duration, 10, 15)
        /\ timetake # <<>> => timetake = ffmpeg_t

\* "01:02:03.500000" was parsed and 3723.5 seconds were returned.
C11_Witness ==
    /\ duration = <<"0", "1", ":", "0", "2", ":", "0", "3", ".",
                    "5", "0", "0", "0", "0", "0">>
    /\ timetake = <<[seconds |-> 3723, microseconds |-> 500000]>>
    /\ ffmpeg_t = timetake
    /\ calls.ffmpeg = 1

\* initialize_upload has built the request body and no chunk was requested
\* yet.
BodyBuilt == calls.insert = 1 /\ calls.next_chunk = 0

\* The keys of titleVars that the metadata holds, in titleVars order.
KeysPresent ==
    SelectSeq(Split(settings.title_vars, ","), LAMBDA k : DictHas(metadata, k))

\* The values of the first n of these keys with the separator between them.
RECURSIVE ValuesJoined(_)
ValuesJoined(n) ==
    IF n = 0 THEN <<>>
    ELSE IF n = 1 THEN DictGet(metadata, KeysPresent[1])
    ELSE ValuesJoined(n - 1) \o settings.title_sep
                             \o DictGet(metadata, KeysPresent[n])

\* C12: in dynamic-title mode the title is the metadata values of the keys
\* listed in titleVars, in titleVars order, joined with the separator; keys
\* absent from the metadata contribute nothing.  (An empty join is replaced
\* by the fallback title, which starts with "[".)
C12_DynamicTitle ==
    (BodyBuilt /\ settings.dynamic_title) =>
        LET joined == ValuesJoined(Len(KeysPresent))
        IN  /\ joined # <<>> => title = joined
            /\ joined = <<>> => title[1] = "["

\* titleVars = [title, album, artist] and metadata = {artist: A, title: B}
\* give "B - A".
C12_Witness ==
    /\ BodyBuilt
    /\ settings.dynamic_title
    /\ Split(settings.title_vars, ",") = <<K_title, K_album, K_artist>>
    /\ metadata = << <<K_artist, <<"A">>>>, <<K_title, <<"B">>>> >>
    /\ title = <<"B", " ", "-", " ", "A">>

\* The least n with n hours >= the audio duration.
HoursRoundedUp(time) ==
    CHOOSE n \in 0..24 :
        /\ n * 3600 > time.seconds
           \/ (n * 3600 = time.seconds /\ time.microseconds = 0)
        /\ \A k \in 0..(n - 1) :
             ~(k * 3600 > time.seconds
               \/ (k * 3600 = time.seconds /\ time.microseconds = 0))

\* The title before the fallback: the join in dynamic mode, else --title.
JoinedTitle ==
    IF settings.dynamic_title THEN ValuesJoined(Len(KeysPresent))
    ELSE settings.title

EntryPos(e) ==
    LET piece == <<"\n">> \o e[1] \o <<":", " ">> \o e[2]
        at(i) == SubSeq(description, i, i + Len(piece) - 1) = piece
    IN  IF \E i \in 1..Len(description) : at(i)
        THEN CHOOSE i \in 1..Len(description) : at(i)
        ELSE 0

\* The metadata entry at position i is appended (its key is no image tag).
Appended(i) == ~Contains(metadata[i][1], <<"A", "P", "I", "C">>)

\* C14: with metadata inclusion enabled every appended entry whose value
\* contains a newline comes after every entry whose value has none, and
\* within each of the two groups the entries keep the order of the metadata
\* mapping.
C14_MultilineLast ==
    (BodyBuilt /\ settings.add_metadata) =>
        \A i \in 1..Len(metadata), j \in 1..Len(metadata) :
            (Appended(i) /\ Appended(j)) =>
                /\ EntryPos(metadata[i]) > 0
                /\ (~HasNewline(metadata[i][2]) /\ HasNewline(metadata[j][2])) =>
                       EntryPos(metadata[i]) < EntryPos(metadata[j])
                /\ (i < j /\ HasNewline(metadata[i][2]) = HasNewline(metadata[j][2])) =>
                       EntryPos(metadata[i]) < EntryPos(metadata[j])

\* comment (two lines), artist, lyrics (two lines), title: the description
\* lists artist, title, comment, lyrics.
C14_Witness ==
    /\ BodyBuilt
    /\ settings.add_metadata
    /\ Len(metadata) = 4
    /\ metadata[1][1] = K_comment /\ metadata[2][1] = K_artist
    /\ metadata[3][1] = K_lyrics /\ metadata[4][1] = K_title
    /\ description = <<"D", "\n">>
         \o <<"\n">> \o K_artist \o <<":", " ", "A">>
         \o <<"\n">> \o K_title \o <<":", " ", "B">>
         \o <<"\n", "-", "-", "-", "-", "\n">> \o K_comment
              \o <<":", " ", "x", "\n", "y", "\n">>
         \o <<"\n", "-", "-", "-", "-", "\n">> \o K_lyrics
              \o <<":", " ", "p", "\n", "q", "\n">>

\* The latest next_chunk() failed transiently: a retriable exception, or an
\* HTTP error with status 500, 502, 503 or 504.
TransientFailure ==
    \/ last_outcome.kind = "retriable_exception"
    \/ /\ last_outcome.kind = "HttpError"
       /\ last_outcome.code \in {500, 502, 503, 504}

\* C15: after a transient failure that does not exceed the retry ceiling
\* the counter goes up by exactly 1 and exactly one sleep is made before the
\* next chunk request; no two chunk requests follow each other without a
\* sleep between them.
C15_OneSleepPerRetry ==
    /\ [][(pc = "after_try" /\ TransientFailure /\ retry < 10) =>
              /\ retry' = retry + 1
              /\ calls'.sleep = calls.sleep + 1
              /\ pc' = "next_chunk"]_vars
    /\ [][calls'.next_chunk # calls.next_chunk =>
              /\ calls.sleep = calls.next_chunk
              /\ calls'.sleep = calls.sleep]_vars

C15_Witness ==
    /\ pc = "next_chunk"
    /\ last_outcome.kind = "HttpError"
    /\ last_outcome.code = 503
    /\ calls.next_chunk = 3
    /\ calls.sleep = 3
    /\ retry = 3

\* C16: with generate_only set, upload_tune runs the encoder and then exits
\* the process; no authentication call and no chunk request is made.
C16_GenerateOnlyNeverUploads ==
    generate_only =>
        /\ calls.auth = 0 /\ calls.insert = 0 /\ calls.next_chunk = 0
        /\ (GenDone /\ pc # "generate_only") => (pc = "done" /\ status = "exit")
        /\ status = "exit" =>
              /\ "Skipping Youtube upload." \in printed
              /\ ~video_ready => (GenDone /\ calls.ffmpeg = 1)

C16_Witness ==
    /\ generate_only
    /\ ~video_ready
    /\ calls.ffmpeg = 1
    /\ status = "exit"
    /\ pc = "done"

\* C17: a sleep and an increment of the counter happen only in response to
\* a failure of the chunk request just made: there are never more of them
\* than transient failures, a finished upload has counted each failure once
\* and, unless it gave up, slept once for each; nothing of the kind follows
\* the terminal successful response.
C17_SleepOnlyAfterFailure ==
    /\ retry <= calls.transient
    /\ calls.sleep <= calls.transient
    /\ (pc = "done" /\ calls.next_chunk > 0) => retry = calls.transient
    /\ (pc = "done" /\ calls.next_chunk > 0 /\ ~TooMany) =>
           calls.sleep = calls.transient

AuthDiagnostics == {"ServerNotFoundError", "Please configure OAuth 2.0."}

\* C18: called with video_ready=True, upload_tune skips generate_video and,
\* once authenticated, has every value initialize_upload is given, so that
\* the run reaches the first chunk request.
C18_VideoReadyReachesUpload ==
    (video_ready /\ pc = "done" /\ calls.auth = 1
        /\ printed \cap AuthDiagnostics = {}) =>
        /\ status # "uncaught"
        /\ calls.insert = 1
        /\ calls.next_chunk >= 1

\* resumable_upload is running.
InUpload == pc \in {"next_chunk", "after_try"}

\* Steps resumable_upload can still take: two for each chunk request left,
\* less the one already taken when the request is about to be made.
UploadRank ==
    IF InUpload
    THEN 2 * (12 - calls.next_chunk) - (IF pc = "next_chunk" THEN 1 ELSE 0)
    ELSE 0

\* C19: every run of resumable_upload terminates, in success or in an
\* abort, after at most 11 chunk requests and at most 10 sleeps, whatever the
\* transport answers: the counts are bounded, the loop always has a next
\* step, every step takes it strictly nearer to its end, and it ends by
\* returning, by exiting or in a traceback.
C19_UploadTerminates ==
    /\ [](calls.next_chunk <= 11 /\ calls.sleep <= 10)
    /\ [](InUpload => (UploadRank > 0 /\ ENABLED Next))
    /\ [][InUpload => UploadRank' < UploadRank]_vars
    /\ []((pc = "done" /\ calls.next_chunk > 0) =>
              status \in {"returned", "SystemExit", "uncaught"})

C19_Witness ==
    /\ pc = "done"
    /\ status = "SystemExit"
    /\ calls.next_chunk = 11
    /\ calls.sleep = 10
    /\ GotId

====
